---- MODULE Spec2Model ----
(***************************************************************************)
(* A model of src/src/object.ts: the strong GraphQL object type builder.   *)
(*                                                                         *)
(* Objects live in a heap and are named by their index (their identity).   *)
(* heap.nullable holds the StrongGraphQLNullableObjectType instances,      *)
(* heap.nonNull the StrongGraphQLObjectType wrappers.  A builder method is *)
(* an operator from a heap to an outcome: the error it threw (or NoError), *)
(* the heap after the call and the reference it returned.                  *)
(*                                                                         *)
(* Field and argument names are GraphQL names, so every key of a field map *)
(* is an ordinary string key of a JavaScript object.                       *)
(***************************************************************************)
EXTENDS Naturals, Sequences, FiniteSets

VARIABLES heap, env, history, lastCall

vars == <<heap, env, history, lastCall>>

(* The most instances of each class a behaviour constructs. *)
MaxObjects == 3

(***************************************************************************)
(* Values                                                                  *)
(***************************************************************************)
Undefined == "undefined"
UndefinedType == [kind |-> "undefined"]
NoError == [error |-> "none"]
TypeError == [error |-> "TypeError"]
NoRef == 0

(* The strong types a field or an argument can name.  Scalars come from    *)
(* the collaborating modules; object types are heap references.            *)
StrongScalar(name, nonNull) == [kind |-> "StrongScalar", name |-> name, nonNull |-> nonNull]
NonNullObject(w) == [kind |-> "NonNullObject", ref |-> w]
NullableObject(n) == [kind |-> "NullableObject", ref |-> n]
(* () => Var, a closure over a binding of the calling module. *)
Thunk(v) == [kind |-> "Thunk", var |-> v]
(* The closure _field stores: () => config.type[()].nullable() *)
NullableThunk(type) == [kind |-> "NullableThunk", of |-> type]

IsFunction(type) == type.kind \in {"Thunk", "NullableThunk"}

EnvVars == {"Later"}

(* The config the program passes to createObjectType. *)
TypeConfigs ==
  { [name |-> "User", description |-> "A user", isTypeOf |-> "isUser"] }

NoArgs == <<>>
(* An args object: its enumerable properties in for-in order, own or       *)
(* inherited from its prototype.                                           *)
ArgsLimit ==
  << [key |-> "limit", own |-> TRUE,
      config |-> [type |-> StrongScalar("Int", TRUE), defaultValue |-> "10",
                  description |-> "How many"]] >>
ArgsMixed ==
  << [key |-> "after", own |-> TRUE,
      config |-> [type |-> StrongScalar("String", FALSE), defaultValue |-> Undefined,
                  description |-> Undefined]],
     [key |-> "inherited", own |-> FALSE,
      config |-> [type |-> StrongScalar("Int", FALSE), defaultValue |-> "0",
                  description |-> "From the prototype"]],
     [key |-> "limit", own |-> TRUE,
      config |-> [type |-> StrongScalar("Int", TRUE), defaultValue |-> "10",
                  description |-> "How many"]] >>

FieldConfig(name, description, deprecationReason, type, args, hasArgs, resolve) ==
  [name |-> name, description |-> description, deprecationReason |-> deprecationReason,
   type |-> type, args |-> args, hasArgs |-> hasArgs, resolve |-> resolve]

(* The field configs the callers pass. *)
FieldInputs(h) ==
  { FieldConfig("id", "The id", Undefined, StrongScalar("String", TRUE), NoArgs, FALSE, "getId"),
    FieldConfig("friend", Undefined, "Use friends", Thunk("Later"), ArgsMixed, TRUE, "getFriend") }
  \cup
  { FieldConfig("owner", "The owner", Undefined, NonNullObject(w), ArgsLimit, TRUE, "getOwner") :
      w \in {1} \cap (1..Len(h.nonNull)) }

(***************************************************************************)
(* The methods every strong type has: nullable() and the conversions to   *)
(* the engine's types                                                      *)
(***************************************************************************)
(* StrongGraphQLNullableObjectType.nullable(): returns this *)
NullableNullable(h, this) == NullableObject(this)

(* nullable() returning this, as the nullable class does *)
NonNullNullable_this(h, this) == NonNullObject(this)

(* StrongGraphQLObjectType.nullable(): returns this.ofType *)
NonNullNullable(h, this) == NullableObject(h.nonNull[this].ofType)

(* The nullable variant of a strong scalar type. *)
ScalarNullable(type) == [type EXCEPT !.nonNull = FALSE]

(* type.nullable(), dispatched on the class of type *)
nullable(h, type) ==
  CASE type.kind = "NonNullObject" -> NonNullNullable(h, type.ref)
    [] type.kind = "NullableObject" -> NullableNullable(h, type.ref)
    [] OTHER -> ScalarNullable(type)

(* The engine type of a strong scalar type. *)
WeakScalar(type) ==
  IF type.nonNull
    THEN [kind |-> "GraphQLNonNull", ofType |-> [kind |-> "GraphQLScalar", name |-> type.name]]
    ELSE [kind |-> "GraphQLScalar", name |-> type.name]

(* type._weakOutputType(): an object type of this module is its own engine type *)
_weakOutputType(type) ==
  IF type.kind \in {"NonNullObject", "NullableObject"} THEN type ELSE WeakScalar(type)

(* type._weakInputType() *)
_weakInputType(type) == WeakScalar(type)

(***************************************************************************)
(* JavaScript objects used as maps: the own properties in insertion order  *)
(***************************************************************************)
EmptyObject == <<>>

HasKey(obj, key) == \E i \in 1..Len(obj) : obj[i].key = key

(* obj[key] = value *)
ObjectSet(obj, key, value) ==
  IF HasKey(obj, key)
    THEN [i \in 1..Len(obj) |-> IF obj[i].key = key THEN [key |-> key, value |-> value] ELSE obj[i]]
    ELSE Append(obj, [key |-> key, value |-> value])

ObjectKeys(obj) == [i \in 1..Len(obj) |-> obj[i].key]

ObjectGet(obj, key) == obj[CHOOSE i \in 1..Len(obj) : obj[i].key = key].value

(***************************************************************************)
(* StrongGraphQLNullableObjectType                                         *)
(***************************************************************************)
(* Calling a stored type thunk in the environment e. *)
CallThunk(h, e, type) ==
  IF type.kind = "Thunk"
    THEN [threw |-> NoError, value |-> e[type.var]]
    ELSE LET inner == IF IsFunction(type.of) THEN e[type.of.var] ELSE type.of
         IN  IF inner = UndefinedType
               THEN [threw |-> TypeError, value |-> UndefinedType]
               ELSE [threw |-> NoError, value |-> nullable(h, inner)]

(* typeof type === 'function' ? type()._weakOutputType() : type._weakOutputType() *)
FieldType(h, e, type) ==
  IF IsFunction(type)
    THEN LET r == CallThunk(h, e, type)
         IN  IF r.threw # NoError THEN r
             ELSE IF r.value = UndefinedType
               THEN [threw |-> TypeError, value |-> UndefinedType]
               ELSE [threw |-> NoError, value |-> _weakOutputType(r.value)]
    ELSE [threw |-> NoError, value |-> _weakOutputType(type)]

(* the argument definition without its defaultValue *)
ArgDefinition_noDefault(argConfig) ==
  [type |-> _weakInputType(argConfig.type),
   defaultValue |-> Undefined,
   description |-> argConfig.description]

ArgDefinition(argConfig) ==
  [type |-> _weakInputType(argConfig.type),
   defaultValue |-> argConfig.defaultValue,
   description |-> argConfig.description]

RECURSIVE ArgsDefinition(_, _)
(* for (const argName in args) if (args.hasOwnProperty(argName)) ... *)
ArgsDefinition(args, argsDefinition) ==
  IF args = <<>> THEN argsDefinition
  ELSE LET p == Head(args)
       IN  ArgsDefinition(Tail(args),
             IF p.own THEN ObjectSet(argsDefinition, p.key, ArgDefinition(p.config))
                      ELSE argsDefinition)

FieldEntry(fieldConfig, type) ==
  [description |-> fieldConfig.description,
   deprecationReason |-> fieldConfig.deprecationReason,
   type |-> type,
   args |-> IF fieldConfig.hasArgs THEN ArgsDefinition(fieldConfig.args, EmptyObject)
                                   ELSE EmptyObject,
   resolve |-> [calls |-> fieldConfig.resolve, with |-> <<"source", "args", "context">>]]

RECURSIVE FieldsLoop(_, _, _, _)
(* for (const fieldConfig of fieldConfigs) fields[fieldConfig.name] = ... *)
FieldsLoop(h, e, fieldConfigs, fields) ==
  IF fieldConfigs = <<>> THEN [threw |-> NoError, value |-> fields]
  ELSE LET fieldConfig == Head(fieldConfigs)
           t == FieldType(h, e, fieldConfig.type)
       IN  IF t.threw # NoError THEN [threw |-> t.threw, value |-> EmptyObject]
           ELSE FieldsLoop(h, e, Tail(fieldConfigs),
                           ObjectSet(fields, fieldConfig.name, FieldEntry(fieldConfig, t.value)))

(* The fields thunk handed to the engine by the constructor. *)
FieldsThunk(h, e, this) ==
  FieldsLoop(h, e, h.nullable[this]._strongFieldConfigs, EmptyObject)

(* new StrongGraphQLNullableObjectType(config, fieldConfigs) *)
NullableObjectType(config, fieldConfigs) ==
  [name |-> config.name,
   description |-> config.description,
   isTypeOf |-> config.isTypeOf,
   _strongConfig |-> config,
   _strongFieldConfigs |-> fieldConfigs]

(* Boolean(findIndex(...)) in place of Boolean(find(...)): index 0 is falsy, -1 truthy *)
_hasField_findIndex(h, this, fieldName) ==
  LET names == [i \in 1..Len(h.nullable[this]._strongFieldConfigs) |->
                  h.nullable[this]._strongFieldConfigs[i].name]
      hits == {i \in 1..Len(names) : names[i] = fieldName}
  IN  hits = {} \/ (\A i \in hits : i > 1)

_hasField(h, this, fieldName) ==
  \E i \in 1..Len(h.nullable[this]._strongFieldConfigs) :
    h.nullable[this]._strongFieldConfigs[i].name = fieldName

DuplicateFieldError(typeName, fieldName) ==
  [error |-> "Error", type |-> typeName, field |-> fieldName]

_assertUniqueFieldName(h, this, fieldName) ==
  IF _hasField(h, this, fieldName)
    THEN DuplicateFieldError(h.nullable[this].name, fieldName)
    ELSE NoError

Threw(h, error) == [threw |-> error, heap |-> h, value |-> NoRef]

NewNullable(h, obj) ==
  [threw |-> NoError,
   heap |-> [h EXCEPT !.nullable = Append(h.nullable, obj)],
   value |-> Len(h.nullable) + 1]

(* _field storing config.type as given, without the nullable thunk *)
_field_keepsType(h, this, config) ==
  LET e == _assertUniqueFieldName(h, this, config.name)
  IN  IF e # NoError THEN Threw(h, e)
      ELSE NewNullable(h,
             NullableObjectType(h.nullable[this]._strongConfig,
               Append(h.nullable[this]._strongFieldConfigs, config)))

(* _field pushing onto this._strongFieldConfigs and sharing the array *)
_field_push(h, this, config) ==
  LET e == _assertUniqueFieldName(h, this, config.name)
      pushed == Append(h.nullable[this]._strongFieldConfigs,
                       [config EXCEPT !.type = NullableThunk(config.type)])
  IN  IF e # NoError THEN Threw(h, e)
      ELSE NewNullable([h EXCEPT !.nullable[this]._strongFieldConfigs = pushed],
                       NullableObjectType(h.nullable[this]._strongConfig, pushed))

(* _field calling config.type at registration and storing the result *)
_field_eager(h, this, config) ==
  LET e == _assertUniqueFieldName(h, this, config.name)
      t == IF IsFunction(config.type) THEN env[config.type.var] ELSE config.type
  IN  IF e # NoError THEN Threw(h, e)
      ELSE IF t = UndefinedType THEN Threw(h, TypeError)
      ELSE NewNullable(h,
             NullableObjectType(h.nullable[this]._strongConfig,
               Append(h.nullable[this]._strongFieldConfigs,
                      [config EXCEPT !.type = nullable(h, t)])))

(* _field without its call of _assertUniqueFieldName *)
_field_unchecked(h, this, config) ==
  NewNullable(h,
    NullableObjectType(h.nullable[this]._strongConfig,
      Append(h.nullable[this]._strongFieldConfigs,
             [config EXCEPT !.type = NullableThunk(config.type)])))

_field(h, this, config) ==
  LET e == _assertUniqueFieldName(h, this, config.name)
  IN  IF e # NoError THEN Threw(h, e)
      ELSE NewNullable(h,
             NullableObjectType(h.nullable[this]._strongConfig,
               Append(h.nullable[this]._strongFieldConfigs,
                      [config EXCEPT !.type = NullableThunk(config.type)])))

(* _fieldNonNull building [config, ...this._strongFieldConfigs] *)
_fieldNonNull_prepend(h, this, config) ==
  LET e == _assertUniqueFieldName(h, this, config.name)
  IN  IF e # NoError THEN Threw(h, e)
      ELSE NewNullable(h,
             NullableObjectType(h.nullable[this]._strongConfig,
               <<config>> \o h.nullable[this]._strongFieldConfigs))

(* _fieldNonNull handing the field's config to the constructor as the type's *)
_fieldNonNull_fieldConfig(h, this, config) ==
  LET e == _assertUniqueFieldName(h, this, config.name)
  IN  IF e # NoError THEN Threw(h, e)
      ELSE NewNullable(h,
             NullableObjectType([name |-> config.name, description |-> config.description,
                                 isTypeOf |-> Undefined],
               Append(h.nullable[this]._strongFieldConfigs, config)))

(* _fieldNonNull without its call of _assertUniqueFieldName *)
_fieldNonNull_unchecked(h, this, config) ==
  NewNullable(h,
    NullableObjectType(h.nullable[this]._strongConfig,
      Append(h.nullable[this]._strongFieldConfigs, config)))

_fieldNonNull(h, this, config) ==
  LET e == _assertUniqueFieldName(h, this, config.name)
  IN  IF e # NoError THEN Threw(h, e)
      ELSE NewNullable(h,
             NullableObjectType(h.nullable[this]._strongConfig,
               Append(h.nullable[this]._strongFieldConfigs, config)))

(***************************************************************************)
(* StrongGraphQLObjectType                                                 *)
(***************************************************************************)
(* new StrongGraphQLObjectType(nullableType), given the outcome r of the   *)
(* expression that computes nullableType.                                  *)
ObjectType(r) ==
  IF r.threw # NoError THEN r
  ELSE [threw |-> NoError,
        heap |-> [r.heap EXCEPT !.nonNull =
                    Append(r.heap.nonNull,
                           [ofType |-> r.value, name |-> r.heap.nullable[r.value].name])],
        value |-> Len(r.heap.nonNull) + 1]

field(h, this, config) == ObjectType(_field(h, h.nonNull[this].ofType, config))

fieldNonNull(h, this, config) == ObjectType(_fieldNonNull(h, h.nonNull[this].ofType, config))

createObjectType(h, config) == ObjectType(NewNullable(h, NullableObjectType(config, <<>>)))

(***************************************************************************)
(* The state machine: the calls of a program that builds types, and the    *)
(* engine's requests for a type's field map.                               *)
(*                                                                         *)
(* history records, for every successful createObjectType, field and       *)
(* fieldNonNull call, what was asked and which instances it constructed;   *)
(* lastCall the most recent call and its outcome.                          *)
(***************************************************************************)
NoConfig == [name |-> Undefined]
NoValue == [kind |-> "none"]

Call(op, this, config, threw, value, fields) ==
  [op |-> op, this |-> this, config |-> config, threw |-> threw, value |-> value,
   fields |-> fields]

Made(op, this, config, inner, outer) ==
  [op |-> op, this |-> this, config |-> config, nullableRef |-> inner.value,
   nonNullRef |-> outer.value]

Init ==
  /\ heap = [nullable |-> <<>>, nonNull |-> <<>>]
  /\ env = [v \in EnvVars |-> UndefinedType]
  /\ history = <<>>
  /\ lastCall = Call("none", NoValue, NoConfig, NoError, NoValue, EmptyObject)

Returned(op, this, config, inner, outer) ==
  /\ Len(outer.heap.nullable) <= MaxObjects
  /\ heap' = outer.heap
  /\ history' = IF outer.threw = NoError
                  THEN Append(history, Made(op, this, config, inner, outer))
                  ELSE history
  /\ lastCall' = Call(op, this, config, outer.threw,
                      IF outer.threw = NoError THEN NonNullObject(outer.value) ELSE NoValue,
                      EmptyObject)
  /\ UNCHANGED env

(* A type name is used once in a schema, so each config is passed once. *)
CreateObjectType ==
  \E config \in TypeConfigs :
    /\ \A n \in 1..Len(heap.nullable) : heap.nullable[n].name # config.name
    /\ Returned("createObjectType", NoValue, config,
                NewNullable(heap, NullableObjectType(config, <<>>)),
                createObjectType(heap, config))

Field ==
  \E this \in 1..Len(heap.nonNull) : \E config \in FieldInputs(heap) :
    Returned("field", NonNullObject(this), config,
             _field(heap, heap.nonNull[this].ofType, config),
             field(heap, this, config))

FieldNonNull ==
  \E this \in 1..Len(heap.nonNull) : \E config \in FieldInputs(heap) :
    Returned("fieldNonNull", NonNullObject(this), config,
             _fieldNonNull(heap, heap.nonNull[this].ofType, config),
             fieldNonNull(heap, this, config))

Nullable ==
  \E this \in 1..Len(heap.nonNull) :
    /\ lastCall' = Call("nullable", NonNullObject(this), NoConfig, NoError,
                        NonNullNullable(heap, this), EmptyObject)
    /\ UNCHANGED <<heap, env, history>>

NullableOfNullable ==
  \E this \in 1..Len(heap.nullable) :
    /\ lastCall' = Call("nullable", NullableObject(this), NoConfig, NoError,
                        NullableNullable(heap, this), EmptyObject)
    /\ UNCHANGED <<heap, env, history>>

(* The engine calls the fields thunk of a nullable object type. *)
Materialize ==
  \E this \in 1..Len(heap.nullable) :
    LET r == FieldsThunk(heap, env, this)
    IN  /\ lastCall' = Call("fields", NullableObject(this), NoConfig, r.threw, NoValue, r.value)
        /\ UNCHANGED <<heap, env, history>>

(* The calling module binds the name its thunks refer to: const Later = <type> *)
Define ==
  \E v \in EnvVars :
    \E type \in {NonNullObject(w) : w \in 1..Len(heap.nonNull)} :
      /\ env[v] = UndefinedType
      /\ env' = [env EXCEPT ![v] = type]
      /\ UNCHANGED <<heap, history, lastCall>>

Next ==
  \/ CreateObjectType
  \/ Field
  \/ FieldNonNull
  \/ Nullable
  \/ NullableOfNullable
  \/ Materialize
  \/ Define

Spec == Init /\ [][Next]_vars

(***************************************************************************)
(* Reading the state                                                       *)
(***************************************************************************)
Nullables == 1..Len(heap.nullable)
NonNulls == 1..Len(heap.nonNull)

StoredConfigs(h, n) == h.nullable[n]._strongFieldConfigs
StoredNames(h, n) == [i \in 1..Len(StoredConfigs(h, n)) |-> StoredConfigs(h, n)[i].name]
HasName(h, n, name) == \E i \in 1..Len(StoredConfigs(h, n)) : StoredNames(h, n)[i] = name

MadeNullable(n) == history[CHOOSE i \in 1..Len(history) : history[i].nullableRef = n]
MadeNonNull(w) == history[CHOOSE i \in 1..Len(history) : history[i].nonNullRef = w]

RECURSIVE Declared(_)
(* The additions that led to the nullable type n, oldest first. *)
Declared(n) ==
  LET e == MadeNullable(n)
  IN  IF e.op = "createObjectType" THEN <<>>
      ELSE Append(Declared(MadeNonNull(e.this.ref).nullableRef),
                  [op |-> e.op, config |-> e.config])

IsAdd(call) == call.op \in {"field", "fieldNonNull"}
IsDuplicateFieldError(e) == e.error = "Error"

(***************************************************************************)
(* C1: adding a field whose name the receiver T already has, through field *)
(* or fieldNonNull, throws the duplicate-field error at the call, returns  *)
(* no type and leaves T and every other object as it was.                  *)
(***************************************************************************)
C1_DuplicateFieldFails ==
  [][\A w \in NonNulls :
       ( /\ lastCall' # lastCall
         /\ IsAdd(lastCall')
         /\ lastCall'.this = NonNullObject(w)
         /\ HasName(heap, heap.nonNull[w].ofType, lastCall'.config.name) )
       => /\ lastCall'.threw =
               DuplicateFieldError(heap.nullable[heap.nonNull[w].ofType].name,
                                   lastCall'.config.name)
          /\ lastCall'.value = NoValue
          /\ heap' = heap
          /\ history' = history]_vars

C1_Witness ==
  /\ lastCall.op = "fieldNonNull"
  /\ IsDuplicateFieldError(lastCall.threw)
  /\ LET d == Declared(heap.nonNull[lastCall.this.ref].ofType)
     IN  \E i \in 1..Len(d) : d[i].op = "field" /\ d[i].config.name = lastCall.config.name

(***************************************************************************)
(* C2: in every type the stored field names are pairwise distinct.         *)
(***************************************************************************)
C2_FieldNamesDistinct ==
  \A n \in Nullables :
    \A i, j \in 1..Len(StoredConfigs(heap, n)) :
      StoredNames(heap, n)[i] = StoredNames(heap, n)[j] => i = j

C2_Witness ==
  /\ IsAdd(lastCall)
  /\ IsDuplicateFieldError(lastCall.threw)
  /\ \E n \in Nullables : Len(StoredConfigs(heap, n)) >= 2

(***************************************************************************)
(* C3: a field added through field(cfg) materializes with the nullable     *)
(* form of cfg.type (resolved first when it is a thunk); a field added     *)
(* through fieldNonNull(cfg) materializes with the resolved cfg.type as    *)
(* declared.                                                               *)
(***************************************************************************)
Resolved(type) == IF type.kind = "Thunk" THEN env[type.var] ELSE type

MaterializedOk == lastCall.op = "fields" /\ lastCall.threw = NoError

C3_MaterializedFieldTypes ==
  MaterializedOk =>
    LET d == Declared(lastCall.this.ref)
    IN  \A i \in 1..Len(d) :
          LET declaredType == Resolved(d[i].config.type)
              entry == ObjectGet(lastCall.fields, d[i].config.name)
          IN  IF d[i].op = "field"
                THEN /\ entry.type = _weakOutputType(nullable(heap, declaredType))
                     /\ entry.type.kind \in {"GraphQLScalar", "NullableObject"}
                ELSE /\ entry.type = _weakOutputType(declaredType)
                     /\ (declaredType.kind = "NonNullObject" => entry.type = declaredType)
                     /\ (declaredType.kind = "StrongScalar" /\ declaredType.nonNull
                           => entry.type.kind = "GraphQLNonNull")

C3_Witness ==
  /\ MaterializedOk
  /\ LET d == Declared(lastCall.this.ref)
     IN  /\ \E i \in 1..Len(d) : d[i].op = "field" /\ d[i].config.type.kind = "Thunk"
         /\ \E i \in 1..Len(d) : d[i].op = "fieldNonNull"

(***************************************************************************)
(* C4: the stored field sequence of a type is the sequence of its          *)
(* successful additions, oldest first, and its materialized field map      *)
(* enumerates those names in that order.                                   *)
(***************************************************************************)
DeclaredNames(n) == [i \in 1..Len(Declared(n)) |-> Declared(n)[i].config.name]

C4_FieldOrderPreserved ==
  /\ \A n \in Nullables : StoredNames(heap, n) = DeclaredNames(n)
  /\ MaterializedOk => ObjectKeys(lastCall.fields) = DeclaredNames(lastCall.this.ref)

C4_Witness ==
  /\ MaterializedOk
  /\ Len(lastCall.fields) >= 2
  /\ \E i \in 1..Len(Declared(lastCall.this.ref)) :
       Declared(lastCall.this.ref)[i].op = "fieldNonNull"

(***************************************************************************)
(* C5: an addition never changes an object that already exists, and two    *)
(* extensions of one base by different names each have the base's fields   *)
(* plus their own, never the other's.                                      *)
(***************************************************************************)
Adds == {i \in 1..Len(history) : IsAdd(history[i])}

Branches ==
  {p \in Adds \X Adds :
     /\ history[p[1]].this = history[p[2]].this
     /\ history[p[1]].config.name # history[p[2]].config.name}

C5_ExistingObjectsUnchanged ==
  /\ SubSeq(heap'.nullable, 1, Len(heap.nullable)) = heap.nullable
  /\ SubSeq(heap'.nonNull, 1, Len(heap.nonNull)) = heap.nonNull

C5_BranchesIndependent ==
  \A p \in Branches :
    LET base == heap.nonNull[history[p[1]].this.ref].ofType
        r == history[p[1]].nullableRef
    IN  /\ Len(StoredConfigs(heap, r)) = Len(StoredConfigs(heap, base)) + 1
        /\ ~HasName(heap, r, history[p[2]].config.name)

C6_NewFieldAdded ==
  [][\A w \in NonNulls :
       ( /\ lastCall' # lastCall
         /\ IsAdd(lastCall')
         /\ lastCall'.this = NonNullObject(w)
         /\ ~HasName(heap, heap.nonNull[w].ofType, lastCall'.config.name) )
       => /\ lastCall'.threw = NoError
          /\ lastCall'.value.kind = "NonNullObject"
          /\ LET t == heap.nonNull[w].ofType
                 r == NonNullNullable(heap', lastCall'.value.ref).ref
             IN  /\ _hasField(heap', r, lastCall'.config.name)
                 /\ Len(StoredConfigs(heap', r)) = Len(StoredConfigs(heap, t)) + 1
                 /\ \A i \in 1..Len(StoredConfigs(heap, t)) :
                      StoredNames(heap', r)[i] = StoredNames(heap, t)[i]]_vars

C6_Witness ==
  /\ IsAdd(lastCall)
  /\ lastCall.threw = NoError
  /\ Len(StoredConfigs(heap, heap.nonNull[lastCall.value.ref].ofType)) >= 2

(***************************************************************************)
(* C7: materialization is lazy and stable.  A registration call stores a   *)
(* field's type thunk uncalled; the thunk is called when the engine asks   *)
(* for the field map and then yields whatever its name is bound to, also a *)
(* type made after the registration; and a field map, once obtained, is    *)
(* what every later materialization of that type yields.                   *)
(***************************************************************************)
C7_ThunksStoredUncalled ==
  \A n \in Nullables : \A i \in 1..Len(Declared(n)) :
    LET d == Declared(n)[i]
        stored == StoredConfigs(heap, n)[i].type
    IN  /\ d.op = "field" => stored = NullableThunk(d.config.type)
        /\ d.op = "fieldNonNull" => stored = d.config.type

C7_RegistrationCallsNoThunk ==
  IsAdd(lastCall) => (lastCall.threw = NoError \/ IsDuplicateFieldError(lastCall.threw))

C7_ThunkSeesBinding ==
  MaterializedOk =>
    LET d == Declared(lastCall.this.ref)
    IN  \A i \in 1..Len(d) :
          d[i].config.type.kind = "Thunk" =>
            /\ env[d[i].config.type.var] # UndefinedType
            /\ ObjectGet(lastCall.fields, d[i].config.name).type =
                 IF d[i].op = "field"
                   THEN _weakOutputType(nullable(heap, env[d[i].config.type.var]))
                   ELSE _weakOutputType(env[d[i].config.type.var])

C7_FieldMapStable ==
  (heap' # heap \/ env' # env) =>
    \A n \in Nullables :
      LET before == FieldsThunk(heap, env, n)
      IN  before.threw = NoError => FieldsThunk(heap', env', n) = before

(* C7: thunks are stored uncalled, called at materialization against the  *)
(* binding of that moment, and an obtained field map never changes.       *)
C7_LazyAndStable ==
  /\ [](C7_ThunksStoredUncalled /\ C7_RegistrationCallsNoThunk /\ C7_ThunkSeesBinding)
  /\ [][C7_FieldMapStable]_vars

(* The thunk's name was bound to a type made after the field's registration. *)
C7_Witness ==
  /\ MaterializedOk
  /\ \E i \in Adds :
       /\ history[i].nullableRef = lastCall.this.ref
       /\ history[i].config.type.kind = "Thunk"
       /\ env[history[i].config.type.var].kind = "NonNullObject"
       /\ env[history[i].config.type.var].ref > history[i].nonNullRef

(***************************************************************************)
(* C8: nullable() on a non-null type returns the nullable instance the     *)
(* type was constructed around, which never changes; nullable() on a       *)
(* nullable type returns that same instance.                               *)
(***************************************************************************)
C8_NullableUnwraps ==
  /\ \A i \in 1..Len(history) :
       heap.nonNull[history[i].nonNullRef].ofType = history[i].nullableRef
  /\ lastCall.op = "nullable" =>
       /\ lastCall.value.kind = "NullableObject"
       /\ lastCall.value.ref \in Nullables
       /\ lastCall.this.kind = "NonNullObject" =>
            lastCall.value = NullableObject(MadeNonNull(lastCall.this.ref).nullableRef)
       /\ lastCall.this.kind = "NullableObject" => lastCall.value = lastCall.this
  /\ \A w \in NonNulls :
       NullableNullable(heap, NonNullNullable(heap, w).ref) = NonNullNullable(heap, w)

C8_Witness ==
  /\ lastCall.op = "nullable"
  /\ lastCall.this.kind = "NonNullObject"
  /\ Len(StoredConfigs(heap, lastCall.value.ref)) >= 1

(***************************************************************************)
(* C9: createObjectType(cfg) returns a type named cfg.name with no fields, *)
(* and every type derived from it keeps that name, on the non-null wrapper *)
(* and on the nullable type, and the base config.                          *)
(***************************************************************************)
RECURSIVE RootOf(_)
(* The createObjectType call the nullable type n descends from. *)
RootOf(n) ==
  LET e == MadeNullable(n)
  IN  IF e.op = "createObjectType" THEN e
      ELSE RootOf(MadeNonNull(e.this.ref).nullableRef)

C9_NameCarriedOver ==
  \A i \in 1..Len(history) :
    LET e == history[i]
        cfg == RootOf(e.nullableRef).config
    IN  /\ heap.nonNull[e.nonNullRef].name = cfg.name
        /\ heap.nullable[e.nullableRef].name = cfg.name
        /\ heap.nullable[e.nullableRef]._strongConfig = cfg
        /\ e.op = "createObjectType" => StoredConfigs(heap, e.nullableRef) = <<>>

C9_Witness ==
  /\ Len(history) >= 3
  /\ history[Len(history)].op = "fieldNonNull"
  /\ history[1].op = "createObjectType"
  /\ heap.nonNull[history[Len(history)].nonNullRef].name = history[1].config.name

(***************************************************************************)
(* C10: a materialized field map has one entry per stored field config,    *)
(* keyed by the field's name, with the field's description and deprecation *)
(* reason and an arguments map that has exactly the field's own declared   *)
(* arguments, each with its converted type, default value and description. *)
(***************************************************************************)
OwnArgs(fieldConfig) ==
  IF fieldConfig.hasArgs
    THEN {i \in 1..Len(fieldConfig.args) : fieldConfig.args[i].own}
    ELSE {}

C10_EntryMatches(entry, fieldConfig) ==
  /\ entry.description = fieldConfig.description
  /\ entry.deprecationReason = fieldConfig.deprecationReason
  /\ Len(entry.args) = Cardinality(OwnArgs(fieldConfig))
  /\ {entry.args[k].key : k \in 1..Len(entry.args)} =
       {fieldConfig.args[k].key : k \in OwnArgs(fieldConfig)}
  /\ \A k \in OwnArgs(fieldConfig) :
       LET arg == fieldConfig.args[k]
       IN  ObjectGet(entry.args, arg.key) =
             [type |-> _weakInputType(arg.config.type),
              defaultValue |-> arg.config.defaultValue,
              description |-> arg.config.description]

C10_FieldMapEntries ==
  MaterializedOk =>
    LET stored == StoredConfigs(heap, lastCall.this.ref)
        fields == lastCall.fields
    IN  /\ Len(fields) = Len(stored)
        /\ {fields[i].key : i \in 1..Len(fields)} = {stored[i].name : i \in 1..Len(stored)}
        /\ \A i \in 1..Len(stored) :
             C10_EntryMatches(ObjectGet(fields, stored[i].name), stored[i])

C10_Witness ==
  /\ MaterializedOk
  /\ \E i \in 1..Len(lastCall.fields) : Len(lastCall.fields[i].value.args) >= 2
  /\ \E i \in 1..Len(lastCall.fields) : lastCall.fields[i].value.args = EmptyObject

====
